---- MODULE Spec2Model ----
(***************************************************************************)
(* Model of the Telegram social-downloader bot (src/main.py): the per-user *)
(* cooldown gate, the platform command handlers /instagram and /tiktok,    *)
(* the media relay with its size policy, the progress-indicator task, the  *)
(* statistics record, and the commands /about, /stats and /broadcast.      *)
(*                                                                         *)
(* Handlers are asyncio coroutines: one action of the model runs a handler *)
(* from the completion of one await to the issue of the next one, which is *)
(* the only place where other coroutines can interleave.  Every chat       *)
(* transport primitive (reply, edit, delete) may complete or raise.        *)
(* Time is the reading of time.time(), kept in ticks of 2^-TimeBits s so   *)
(* that the float arithmetic of check_cooldown is exact.                   *)
(***************************************************************************)
EXTENDS Integers, Sequences, FiniteSets, TLC

(* ---------------------------- bounds ----------------------------------- *)
MaxCommands == 3      \* commands issued in one behaviour
MaxUrls == 2          \* media URLs in one /instagram extraction result
MaxFrames == 1        \* spinner frames one progress indicator may apply
TimeBits == 4         \* clock readings are multiples of 2^-TimeBits seconds
MaxRetryGap == 3      \* ticks between two commands in the runs of quick retries

(* ------------------------- configuration ------------------------------- *)
COMMAND_COOLDOWN == 7
ADMIN_IDS == {1}
Users == {1, 2, 3}
VIDEO_LIMIT == 50 * 1024 * 1024
PHOTO_LIMIT == 10 * 1024 * 1024

TicksPerSec == 2 ^ TimeBits
CooldownTicks == COMMAND_COOLDOWN * TicksPerSec
\* the clock reading when the process starts (any time after 1970-01-01T00:00:07)
StartTime == CooldownTicks
\* time that passes between two readings of the clock: one tick, or one tick
\* less than the cooldown window
TimeSteps == {1, CooldownTicks - 1}

\* a URL is its sequence of path tokens; "mp4" in url is a token test
UrlP == <<"cdn", "a", "jpg">>
UrlV == <<"cdn", "b", "mp4">>
UrlW == <<"cdn", "c", "mp4">>
UrlQ == <<"cdn", "d", "jpg">>
\* the media URLs an extraction result lists, all different: it lists the
\* first n of them
UrlPool == <<UrlP, UrlV, UrlW, UrlQ>>
HasMp4(url) == \E k \in DOMAIN url : url[k] = "mp4"

\* byte lengths of fetched payloads, around the two thresholds
Sizes == {PHOTO_LIMIT, PHOTO_LIMIT + 1, VIDEO_LIMIT, VIDEO_LIMIT + 1}

(* --------------------------- dictionaries ------------------------------ *)
\* d.get(k, default)
Get(d, k, default) == IF k \in DOMAIN d THEN d[k] ELSE default
\* d[k] = v
Put(d, k, v) == [x \in (DOMAIN d) \cup {k} |-> IF x = k THEN v ELSE d[x]]
EmptyDict == [x \in {} |-> 0]

(* ----------------------- extraction API results ------------------------ *)
\* what call_api("insta", link) can return
InstaResponses ==
  {[success |-> FALSE, error |-> "upstream"], [success |-> TRUE]}
  \cup {[success |-> TRUE, urls |-> SubSeq(UrlPool, 1, n)] : n \in 0..MaxUrls}

VideoPlain == [downloadLinks |-> <<[link |-> UrlV]>>]
VideoThumb == [downloadLinks |-> <<[link |-> UrlV]>>, thumbnail |-> UrlP]
VideoNoLinks == [downloadLinks |-> <<>>]
\* what call_api("tiktok", link) can return
TiktokResponses ==
  {[success |-> FALSE, error |-> "upstream"], [success |-> TRUE, data |-> <<>>]}
  \cup {[success |-> TRUE, data |-> <<v>>] : v \in {VideoPlain, VideoThumb, VideoNoLinks}}

(* ----------------------------- rate limiter ---------------------------- *)
is_admin(user_id) == user_id \in ADMIN_IDS

\* Round1 with the digits after the first decimal dropped instead of rounded
Round1Trunc(ticks) == (10 * ticks) \div TicksPerSec

\* round(x, 1) of the float x = ticks / TicksPerSec, in tenths: Python rounds
\* the exact value to the nearest tenth, ties to the even tenth
Round1(ticks) ==
  LET num == 10 * ticks
      q == num \div TicksPerSec
      r == num % TicksPerSec
  IN IF 2 * r < TicksPerSec THEN q
     ELSE IF 2 * r > TicksPerSec THEN q + 1
     ELSE IF q % 2 = 0 THEN q ELSE q + 1

\* check_cooldown that records the time of a rejected attempt as well
check_cooldown_touch(ud, user_id, t) ==
  IF is_admin(user_id)
  THEN [on_cd |-> FALSE, wait |-> 0, user_data |-> ud]
  ELSE LET last == Get(ud, "last_cmd", 0)
       IN IF t - last < CooldownTicks
          THEN [on_cd |-> TRUE, wait |-> Round1(CooldownTicks - (t - last)),
                user_data |-> Put(ud, "last_cmd", t)]
          ELSE [on_cd |-> FALSE, wait |-> 0, user_data |-> Put(ud, "last_cmd", t)]

\* check_cooldown without the is_admin exemption
check_cooldown_noadmin(ud, user_id, t) ==
  LET last == Get(ud, "last_cmd", 0)
  IN IF t - last < CooldownTicks
     THEN [on_cd |-> TRUE, wait |-> Round1(CooldownTicks - (t - last)), user_data |-> ud]
     ELSE [on_cd |-> FALSE, wait |-> 0, user_data |-> Put(ud, "last_cmd", t)]

\* check_cooldown with a window one second short
check_cooldown_shortwindow(ud, user_id, t) ==
  IF is_admin(user_id)
  THEN [on_cd |-> FALSE, wait |-> 0, user_data |-> ud]
  ELSE LET last == Get(ud, "last_cmd", 0)
       IN IF t - last < CooldownTicks - TicksPerSec
          THEN [on_cd |-> TRUE, wait |-> Round1(CooldownTicks - (t - last)),
                user_data |-> ud]
          ELSE [on_cd |-> FALSE, wait |-> 0, user_data |-> Put(ud, "last_cmd", t)]

\* check_cooldown taking the current time for a missing timestamp
check_cooldown_defaultnow(ud, user_id, t) ==
  IF is_admin(user_id)
  THEN [on_cd |-> FALSE, wait |-> 0, user_data |-> ud]
  ELSE LET last == Get(ud, "last_cmd", t)
       IN IF t - last < CooldownTicks
          THEN [on_cd |-> TRUE, wait |-> Round1(CooldownTicks - (t - last)),
                user_data |-> ud]
          ELSE [on_cd |-> FALSE, wait |-> 0, user_data |-> Put(ud, "last_cmd", t)]

\* check_cooldown reporting the time elapsed instead of the time remaining
check_cooldown_elapsed(ud, user_id, t) ==
  IF is_admin(user_id)
  THEN [on_cd |-> FALSE, wait |-> 0, user_data |-> ud]
  ELSE LET last == Get(ud, "last_cmd", 0)
       IN IF t - last < CooldownTicks
          THEN [on_cd |-> TRUE, wait |-> Round1(t - last), user_data |-> ud]
          ELSE [on_cd |-> FALSE, wait |-> 0, user_data |-> Put(ud, "last_cmd", t)]

\* check_cooldown(context, user_id) with context.user_data = ud and
\* time.time() = t: the pair it returns and the user_data it leaves
check_cooldown(ud, user_id, t) ==
  IF is_admin(user_id)
  THEN [on_cd |-> FALSE, wait |-> 0, user_data |-> ud]
  ELSE LET last == Get(ud, "last_cmd", 0)
       IN IF t - last < CooldownTicks
          THEN [on_cd |-> TRUE, wait |-> Round1(CooldownTicks - (t - last)),
                user_data |-> ud]
          ELSE [on_cd |-> FALSE, wait |-> 0, user_data |-> Put(ud, "last_cmd", t)]

(* ------------------------------ statistics ----------------------------- *)
\* track_command storing the per-command count it read, without the + 1
track_command_nocount(st, user_id, cmd, success) ==
  [total_requests |-> st.total_requests + 1,
   users |-> st.users \cup {user_id},
   successful_requests |-> st.successful_requests + (IF success THEN 1 ELSE 0),
   failed_requests |-> st.failed_requests + (IF success THEN 0 ELSE 1),
   commands_used |-> Put(st.commands_used, cmd, Get(st.commands_used, cmd, 0))]

\* track_command(user_id, cmd, success) applied to the stats record st
track_command(st, user_id, cmd, success) ==
  [total_requests |-> st.total_requests + 1,
   users |-> st.users \cup {user_id},
   successful_requests |-> st.successful_requests + (IF success THEN 1 ELSE 0),
   failed_requests |-> st.failed_requests + (IF success THEN 0 ELSE 1),
   commands_used |-> Put(st.commands_used, cmd, Get(st.commands_used, cmd, 0) + 1)]

(* ------------------------------- state --------------------------------- *)
VARIABLES
  now,        \* the latest reading of time.time(), in ticks
  ncmds,      \* commands issued so far
  user_data,  \* context.user_data of each user
  stats,      \* the module-level stats record
  h,          \* the locals and position of each user's running handler
  msg,        \* the status message of each user's handler
  task,       \* the loading_animation task of each user's handler
  concurrent_updates,  \* the Application's concurrent_updates setting
  calls       \* history: the track_command calls made so far, per command

vars == <<now, ncmds, user_data, stats, h, msg, task, concurrent_updates, calls>>

NoRelay == [url |-> <<>>, kind |-> "none", size |-> 0, inline |-> FALSE, result |-> "none"]

\* the quotient num / den of two numbers
Ratio(num, den) == [num |-> num, den |-> den]
NoRate == Ratio(0, 1)

\* a handler that is not running
Idle ==
  [pc |-> "idle", cmd |-> "none", args |-> FALSE, on_cd |-> FALSE, wait |-> 0,
   data |-> EmptyDict, i |-> 0, uploaded |-> 0, fallback |-> <<>>,
   relay |-> NoRelay, relayed |-> <<>>, has_task |-> FALSE,
   success_rate |-> NoRate, shown |-> 0,
   sent |-> 0, failed |-> 0, si_used |-> 0, uid |-> 0, visited |-> {}, delivered |-> {},
   exit |-> "none"]

\* the text of a message: its kind and up to two numbers shown in it
Text(kind, a, b) == [kind |-> kind, a |-> a, b |-> b]
NoMsg == [state |-> "none", text |-> Text("none", 0, 0)]
NoTask == [pc |-> "none", cancel |-> FALSE, i |-> 0]

InitState ==
  /\ now = StartTime
  /\ ncmds = 0
  /\ user_data = [u \in Users |-> EmptyDict]
  /\ stats = [total_requests |-> 0, successful_requests |-> 0,
              failed_requests |-> 0, users |-> {}, commands_used |-> EmptyDict]
  /\ h = [u \in Users |-> Idle]
  /\ msg = [u \in Users |-> NoMsg]
  /\ task = [u \in Users |-> NoTask]
  /\ calls = EmptyDict

\* main(): Application.builder().token(BOT_TOKEN).build() leaves
\* concurrent_updates at its default, so updates are handled one at a time
Init ==
  /\ InitState
  /\ concurrent_updates = FALSE


(* ------------------------ progress indicator --------------------------- *)
\* task.cancel(): a no-op on a task that is done, else a cancellation request
\* delivered at the task's current await
task_cancel(t) == IF t.pc \in {"none", "finished"} THEN t ELSE [t EXCEPT !.cancel = TRUE]

\* a finally clause that is skipped when an exception leaves the handler
HandlerFinally_onreturn(t, exit) == IF exit = "raised" THEN t ELSE task_cancel(t)

\* the finally clause of a platform handler, run on return and on raise alike
HandlerFinally(t, exit) == task_cancel(t)

\* loading_animation issues msg.edit_text(spinner[i % 10] ...) on its first run
\* and after each sleep
AnimEditIssue(u) ==
  /\ task[u].pc \in {"created", "sleeping"}
  /\ ~task[u].cancel
  /\ task[u].i < MaxFrames
  /\ task' = [task EXCEPT ![u].pc = "editing"]
  /\ UNCHANGED <<now, ncmds, user_data, stats, calls, h, msg, concurrent_updates>>

\* the edit completes: the frame is applied, i += 1, the task sleeps; or the
\* edit raises and the bare except ends the task
AnimEditDone(u, ok) ==
  /\ task[u].pc = "editing"
  /\ ~task[u].cancel
  /\ ok => msg[u].state = "live"
  /\ IF ok
     THEN /\ msg' = [msg EXCEPT ![u].text = Text("spin", task[u].i % 10, 0)]
          /\ task' = [task EXCEPT ![u].pc = "sleeping", ![u].i = task[u].i + 1]
     ELSE /\ task' = [task EXCEPT ![u].pc = "finished"]
          /\ UNCHANGED msg
  /\ UNCHANGED <<now, ncmds, user_data, stats, calls, h, concurrent_updates>>

\* CancelledError is raised at the task's await and swallowed by the bare
\* except; an edit request already in flight may still be applied by the server
AnimCancelled(u, applied) ==
  /\ task[u].cancel
  /\ task[u].pc \in {"created", "sleeping", "editing"}
  /\ applied => (task[u].pc = "editing" /\ msg[u].state = "live")
  /\ task' = [task EXCEPT ![u].pc = "finished"]
  /\ msg' = IF applied THEN [msg EXCEPT ![u].text = Text("spin", task[u].i % 10, 0)]
            ELSE msg
  /\ UNCHANGED <<now, ncmds, user_data, stats, calls, h, concurrent_updates>>

(* --------------------------- handler steps ----------------------------- *)
\* a handler that has returned or raised: its locals are gone, what is kept
\* is which command it was, how it left and what it did
Done(hu, exit) ==
  [Idle EXCEPT !.pc = "done", !.cmd = hu.cmd, !.args = hu.args, !.on_cd = hu.on_cd,
               !.wait = hu.wait, !.exit = exit, !.has_task = hu.has_task]

\* the handler of u leaves with `exit` from inside its try statement
Leave(u, hu, exit) ==
  /\ h' = [h EXCEPT ![u] = Done(hu, exit)]
  /\ task' = [task EXCEPT ![u] = HandlerFinally(task[u], exit)]

\* an exception inside the try statement: the except clause issues
\* msg.edit_text("Unexpected error.") / msg.edit_text("Error occurred.")
Except(hu) ==
  [hu EXCEPT !.pc = "edit_except", !.relay = [NoRelay EXCEPT !.result = hu.relay.result]]

\* track_command(user_id, cmd, ...) called by the handler of u
Track(hu, u, success) ==
  /\ stats' = track_command(stats, u, hu.cmd, success)
  /\ calls' = Put(calls, hu.cmd, Get(calls, hu.cmd, 0) + 1)

\* a handler that has left and whose indicator task is over: nothing of it
\* remains in the process
Stale(v) == h[v].pc = "done" /\ task[v].pc \in {"none", "finished"}
Quiet(v) == h[v].pc \in {"idle", "done"} /\ task[v].pc \in {"none", "finished"}

\* lines up to the first await of a platform handler: the cooldown gate, then
\* the argument check, then the "Processing..." status message.  The update is
\* dispatched when no other update is being handled, unless concurrent_updates;
\* the event loop runs a cancelled indicator task before the next handler gets
\* past its first await, so the task is taken to be over when the handler starts.
\* The clock is read (d after its previous reading) only for a non-admin.
Begin(u, cmd, args, d) ==
  /\ Quiet(u)
  /\ concurrent_updates \/ \A v \in Users : Quiet(v)
  /\ ncmds < MaxCommands
  /\ ncmds' = ncmds + 1
  /\ IF is_admin(u) THEN d = 1 /\ now' = now ELSE now' = now + d
  /\ LET cc == check_cooldown(user_data[u], u, now')
     IN /\ user_data' = [user_data EXCEPT ![u] = cc.user_data]
        /\ h' = [v \in Users |->
                  IF v = u
                  THEN [Idle EXCEPT !.cmd = cmd, !.args = args, !.on_cd = cc.on_cd,
                                    !.wait = cc.wait,
                                    !.pc = IF cc.on_cd THEN "reply_wait"
                                           ELSE IF ~args THEN "reply_usage"
                                           ELSE "reply_processing"]
                  ELSE IF Stale(v) THEN Idle ELSE h[v]]
  /\ msg' = [v \in Users |-> IF v = u \/ Stale(v) THEN NoMsg ELSE msg[v]]
  /\ task' = [v \in Users |-> IF v = u \/ Stale(v) THEN NoTask ELSE task[v]]
  /\ UNCHANGED <<stats, calls, concurrent_updates>>

handle_instagram(u, args, d) == Begin(u, "instagram", args, d)
handle_tiktok(u, args, d) == Begin(u, "tiktok", args, d)

\* the "Wait ..." or "Usage: ..." reply completes or raises; the handler
\* returns, or the exception leaves it (these replies are outside the try)
ReplyEarlyDone(u, ok) ==
  /\ h[u].pc \in {"reply_wait", "reply_usage"}
  /\ h' = [h EXCEPT ![u] = Done(h[u], IF ok THEN "returned" ELSE "raised")]
  /\ UNCHANGED <<now, ncmds, user_data, stats, calls, msg, task, concurrent_updates>>

\* the "Processing..." reply completes: the task is created and call_api is
\* awaited; or it raises and the exception leaves the handler
ReplyProcessingDone(u, ok) ==
  /\ h[u].pc = "reply_processing"
  /\ IF ok
     THEN /\ msg' = [msg EXCEPT ![u] = [state |-> "live", text |-> Text("Processing", 0, 0)]]
          /\ task' = [task EXCEPT ![u] = [pc |-> "created", cancel |-> FALSE, i |-> 0]]
          /\ h' = [h EXCEPT ![u].pc = "call_api", ![u].has_task = TRUE]
     ELSE /\ h' = [h EXCEPT ![u] = Done(h[u], "raised")]
          /\ UNCHANGED <<msg, task>>
  /\ UNCHANGED <<now, ncmds, user_data, stats, calls, concurrent_updates>>

(* ----------------------------- media relay ----------------------------- *)
\* the size policy with the video threshold applied to photos too
SizeRejected_onelimit(media_type, len) ==
  media_type \in {"video", "photo"} /\ len > VIDEO_LIMIT

\* the size policy of send_media_from_url
SizeRejected(media_type, len) ==
  \/ media_type = "video" /\ len > VIDEO_LIMIT
  \/ media_type = "photo" /\ len > PHOTO_LIMIT

\* send_media_from_url(update, file_url, media_type, ...) is entered: the
\* fetch is awaited
CallRelay(hu, file_url, media_type) ==
  [hu EXCEPT !.pc = "relay_fetch",
             !.relayed = Append(hu.relayed, file_url),
             !.relay = [url |-> file_url, kind |-> media_type, size |-> 0,
                        inline |-> FALSE, result |-> "none"]]

\* the loop with a failed item left out of the fallback list
IgAfterRelay_nofallback(hu, sent) ==
  LET hu1 == IF sent THEN [hu EXCEPT !.uploaded = hu.uploaded + 1] ELSE hu
  IN IF hu.i < Len(hu.data["urls"])
     THEN [hu1 EXCEPT !.i = hu.i + 1, !.pc = "edit_progress"]
     ELSE [hu1 EXCEPT !.pc = "delete"]

\* the loop with every item put on the fallback list, delivered or not
IgAfterRelay_deferall(hu, sent) ==
  LET url == hu.data["urls"][hu.i]
      hu1 == [hu EXCEPT !.uploaded = hu.uploaded + (IF sent THEN 1 ELSE 0),
                        !.fallback = Append(hu.fallback, url)]
  IN IF hu.i < Len(hu.data["urls"])
     THEN [hu1 EXCEPT !.i = hu.i + 1, !.pc = "edit_progress"]
     ELSE [hu1 EXCEPT !.pc = "delete"]

\* for enumerate(data["urls"], 1): the next item's status edit is issued, or
\* the loop is over and msg.delete() is issued
IgAfterRelay(hu, sent) ==
  LET url == hu.data["urls"][hu.i]
      hu1 == IF sent THEN [hu EXCEPT !.uploaded = hu.uploaded + 1]
             ELSE [hu EXCEPT !.fallback = Append(hu.fallback, url)]
  IN IF hu.i < Len(hu.data["urls"])
     THEN [hu1 EXCEPT !.i = hu.i + 1, !.pc = "edit_progress"]
     ELSE [hu1 EXCEPT !.pc = "delete"]

\* the branch on `sent` with the fallback edit on both sides
TtAfterRelay_alwayslink(hu, sent) == [hu EXCEPT !.pc = "edit_toolarge"]

\* if sent: msg.delete() ... else: msg.edit_text("Too large. ...")
TtAfterRelay(hu, sent) ==
  IF sent THEN [hu EXCEPT !.pc = "delete"] ELSE [hu EXCEPT !.pc = "edit_toolarge"]

\* send_media_from_url returns to its caller: True after the inline send
\* (result "ok"), False after the ValueError of the size policy ("rejected")
\* or after any other exception ("failed")
RelayReturn(hu, result) ==
  LET hu1 == [hu EXCEPT !.relay.result = result]
      sent == result = "ok"
  IN IF hu.cmd = "instagram" THEN IgAfterRelay(hu1, sent) ELSE TtAfterRelay(hu1, sent)

\* the fetch completes with `len` bytes, or raises (res = 0): on a raise or a
\* size rejection the relay returns False, else the inline send is awaited
RelayFetchDone(u, res) ==
  /\ h[u].pc = "relay_fetch"
  /\ LET hu == [h[u] EXCEPT !.relay.size = res]
     IN h' = [h EXCEPT ![u] =
               IF res = 0 THEN RelayReturn(hu, "failed")
               ELSE IF SizeRejected(hu.relay.kind, res) THEN RelayReturn(hu, "rejected")
               ELSE [hu EXCEPT !.pc = "relay_send", !.relay.inline = TRUE]]
  /\ UNCHANGED <<now, ncmds, user_data, stats, calls, msg, task, concurrent_updates>>

\* reply_video / reply_photo completes (True) or raises (False)
RelaySendDone(u, ok) ==
  /\ h[u].pc = "relay_send"
  /\ h' = [h EXCEPT ![u] = RelayReturn(h[u], IF ok THEN "ok" ELSE "failed")]
  /\ UNCHANGED <<now, ncmds, user_data, stats, calls, msg, task, concurrent_updates>>


(* --------------------------- handle_instagram -------------------------- *)
\* a truthy data.get("success") and a non-empty data.get(key)
Usable(data, key) == Get(data, "success", FALSE) /\ Get(data, key, <<>>) # <<>>

\* call_api("insta", ...) returns: the loop issues its first status edit, or
\* the "Error: ..." edit is issued
IgApiDone(u, resp) ==
  /\ h[u].pc = "call_api" /\ h[u].cmd = "instagram"
  /\ LET hu == [h[u] EXCEPT !.data = resp]
     IN h' = [h EXCEPT ![u] =
               IF Usable(resp, "urls")
               THEN [hu EXCEPT !.uploaded = 0, !.fallback = <<>>, !.i = 1,
                               !.pc = "edit_progress"]
               ELSE [hu EXCEPT !.pc = "edit_error"]]
  /\ UNCHANGED <<now, ncmds, user_data, stats, calls, msg, task, concurrent_updates>>

\* msg.edit_text("Downloading i/N...") completes and the relay is called for
\* item i, or it raises into the except clause
IgEditProgressDone(u, ok) ==
  /\ h[u].pc = "edit_progress"
  /\ ok => msg[u].state = "live"
  /\ LET urls == h[u].data["urls"]
         url == urls[h[u].i]
     IN IF ok
        THEN /\ msg' = [msg EXCEPT ![u].text = Text("Downloading", h[u].i, Len(urls))]
             /\ h' = [h EXCEPT ![u] =
                       CallRelay(h[u], url, IF HasMp4(url) THEN "video" ELSE "photo")]
        ELSE /\ h' = [h EXCEPT ![u] = Except(h[u])]
             /\ UNCHANGED msg
  /\ UNCHANGED <<now, ncmds, user_data, stats, calls, task, concurrent_updates>>

\* msg.delete() completes: the fallback list is replied if there is one, else
\* the success is tracked and the handler returns; or it raises
IgDeleteDone(u, ok) ==
  /\ h[u].pc = "delete" /\ h[u].cmd = "instagram"
  /\ ok => msg[u].state = "live"
  /\ IF ok
     THEN /\ msg' = [msg EXCEPT ![u].state = "deleted"]
          /\ IF h[u].fallback # <<>>
             THEN /\ h' = [h EXCEPT ![u].pc = "reply_fallback", ![u].relay = NoRelay]
                  /\ UNCHANGED <<stats, calls, task>>
             ELSE /\ Track(h[u], u, TRUE)
                  /\ Leave(u, h[u], "returned")
     ELSE /\ h' = [h EXCEPT ![u] = Except(h[u])]
          /\ UNCHANGED <<msg, stats, calls, task>>
  /\ UNCHANGED <<now, ncmds, user_data, concurrent_updates>>

\* reply_html(fallback list) completes: the success is tracked and the handler
\* returns; or it raises
IgReplyFallbackDone(u, ok) ==
  /\ h[u].pc = "reply_fallback"
  /\ IF ok
     THEN /\ Track(h[u], u, TRUE)
          /\ Leave(u, h[u], "returned")
     ELSE /\ h' = [h EXCEPT ![u] = Except(h[u])]
          /\ UNCHANGED <<stats, calls, task>>
  /\ UNCHANGED <<now, ncmds, user_data, msg, concurrent_updates>>

\* msg.edit_text("Error: ...") completes: the failure is tracked and the
\* handler returns; or it raises
IgEditErrorDone(u, ok) ==
  /\ h[u].pc = "edit_error" /\ h[u].cmd = "instagram"
  /\ ok => msg[u].state = "live"
  /\ IF ok
     THEN /\ msg' = [msg EXCEPT ![u].text = Text("Error", 0, 0)]
          /\ Track(h[u], u, FALSE)
          /\ Leave(u, h[u], "returned")
     ELSE /\ h' = [h EXCEPT ![u] = Except(h[u])]
          /\ UNCHANGED <<msg, stats, calls, task>>
  /\ UNCHANGED <<now, ncmds, user_data, concurrent_updates>>

(* ----------------------------- handle_tiktok --------------------------- *)
\* call_api("tiktok", ...) returns: data["data"][0]["downloadLinks"][0]["link"]
\* is read (an IndexError goes to the except clause), the thumbnail is replied
\* if there is one, else the relay is called; or the "Error: ..." edit is issued
TtApiDone(u, resp) ==
  /\ h[u].pc = "call_api" /\ h[u].cmd = "tiktok"
  /\ LET hu == [h[u] EXCEPT !.data = resp]
     IN h' = [h EXCEPT ![u] =
               IF Usable(resp, "data")
               THEN LET video == resp["data"][1]
                    IN IF video["downloadLinks"] = <<>> THEN Except(hu)
                       ELSE IF "thumbnail" \in DOMAIN video
                       THEN [hu EXCEPT !.pc = "reply_thumb"]
                       ELSE CallRelay(hu, video["downloadLinks"][1]["link"], "video")
               ELSE [hu EXCEPT !.pc = "edit_error"]]
  /\ UNCHANGED <<now, ncmds, user_data, stats, calls, msg, task, concurrent_updates>>

\* reply_photo(thumbnail) completes and the relay is called, or it raises
TtThumbDone(u, ok) ==
  /\ h[u].pc = "reply_thumb"
  /\ h' = [h EXCEPT ![u] =
            IF ok THEN CallRelay(h[u], h[u].data["data"][1]["downloadLinks"][1]["link"], "video")
            ELSE Except(h[u])]
  /\ UNCHANGED <<now, ncmds, user_data, stats, calls, msg, task, concurrent_updates>>

\* msg.delete() completes: the success is tracked and the handler returns; or
\* it raises
TtDeleteDone(u, ok) ==
  /\ h[u].pc = "delete" /\ h[u].cmd = "tiktok"
  /\ ok => msg[u].state = "live"
  /\ IF ok
     THEN /\ msg' = [msg EXCEPT ![u].state = "deleted"]
          /\ Track(h[u], u, TRUE)
          /\ Leave(u, h[u], "returned")
     ELSE /\ h' = [h EXCEPT ![u] = Except(h[u])]
          /\ UNCHANGED <<msg, stats, calls, task>>
  /\ UNCHANGED <<now, ncmds, user_data, concurrent_updates>>

\* msg.edit_text("Too large. <a href=...>") completes: the failure is tracked
\* and the handler returns; or it raises
TtEditTooLargeDone(u, ok) ==
  /\ h[u].pc = "edit_toolarge"
  /\ ok => msg[u].state = "live"
  /\ IF ok
     THEN /\ msg' = [msg EXCEPT ![u].text = Text("TooLarge", 0, 0)]
          /\ Track(h[u], u, FALSE)
          /\ Leave(u, h[u], "returned")
     ELSE /\ h' = [h EXCEPT ![u] = Except(h[u])]
          /\ UNCHANGED <<msg, stats, calls, task>>
  /\ UNCHANGED <<now, ncmds, user_data, concurrent_updates>>

\* msg.edit_text("Error: ...") completes and the handler returns, nothing
\* being tracked; or it raises
TtEditErrorDone(u, ok) ==
  /\ h[u].pc = "edit_error" /\ h[u].cmd = "tiktok"
  /\ ok => msg[u].state = "live"
  /\ IF ok
     THEN /\ msg' = [msg EXCEPT ![u].text = Text("Error", 0, 0)]
          /\ Leave(u, h[u], "returned")
     ELSE /\ h' = [h EXCEPT ![u] = Except(h[u])]
          /\ UNCHANGED <<msg, task>>
  /\ UNCHANGED <<now, ncmds, user_data, stats, calls, concurrent_updates>>

(* -------------------------- the except clauses ------------------------- *)
\* msg.edit_text("Unexpected error.") / ("Error occurred.") completes and the
\* handler returns; or it raises and the exception leaves the handler
ExceptEditDone(u, ok) ==
  /\ h[u].pc = "edit_except"
  /\ ok => msg[u].state = "live"
  /\ msg' = IF ok THEN [msg EXCEPT ![u].text = Text("Unexpected", 0, 0)] ELSE msg
  /\ Leave(u, h[u], IF ok THEN "returned" ELSE "raised")
  /\ UNCHANGED <<now, ncmds, user_data, stats, calls, concurrent_updates>>

(* ------------------------- about, stats, broadcast --------------------- *)
\* an update of user u is dispatched to a handler without a cooldown gate,
\* which runs to its first await with the locals hu; dispatching is as in Begin
Dispatch(u, hu) ==
  /\ Quiet(u)
  /\ concurrent_updates \/ \A v \in Users : Quiet(v)
  /\ ncmds < MaxCommands
  /\ ncmds' = ncmds + 1
  /\ h' = [v \in Users |-> IF v = u THEN hu ELSE IF Stale(v) THEN Idle ELSE h[v]]
  /\ msg' = [v \in Users |-> IF v = u \/ Stale(v) THEN NoMsg ELSE msg[v]]
  /\ task' = [v \in Users |-> IF v = u \/ Stale(v) THEN NoTask ELSE task[v]]
  /\ UNCHANGED <<now, user_data, stats, calls, concurrent_updates>>

Max(a, b) == IF a >= b THEN a ELSE b

\* the success rate with the failures in the numerator
success_rate_failed(st) ==
  Ratio(st.failed_requests * 100, Max(st.total_requests, 1))

\* (stats["successful_requests"] / max(stats["total_requests"], 1)) * 100
success_rate(st) ==
  Ratio(st.successful_requests * 100, Max(st.total_requests, 1))

\* f"{x:.1f}" of x = r.num / r.den, in tenths: the nearest tenth, ties to even
Fixed1(r) ==
  LET num == 10 * r.num
      q == num \div r.den
      m == num % r.den
  IN IF 2 * m < r.den THEN q
     ELSE IF 2 * m > r.den THEN q + 1
     ELSE IF q % 2 = 0 THEN q ELSE q + 1

\* about: the success rate is computed from the stats record and the reply
\* that shows it with one decimal is awaited
about(u) ==
  Dispatch(u, [Idle EXCEPT !.cmd = "about", !.pc = "reply_about",
                           !.success_rate = success_rate(stats),
                           !.shown = Fixed1(success_rate(stats))])

\* stats_command: a non-admin gets "Admin only."; the admin's report is awaited
stats_command(u) ==
  Dispatch(u, [Idle EXCEPT !.cmd = "stats",
                           !.pc = IF ~is_admin(u) THEN "reply_admin_only"
                                  ELSE "reply_stats"])

\* broadcast with the argument check ahead of the privilege check
broadcast_entry_argsfirst(user_id, args) ==
  IF ~args THEN "reply_usage"
  ELSE IF ~is_admin(user_id) THEN "reply_admin_only"
  ELSE "reply_sending"

\* the lines of broadcast up to its first await: the reply it issues
broadcast_entry(user_id, args) ==
  IF ~is_admin(user_id) THEN "reply_admin_only"
  ELSE IF ~args THEN "reply_usage"
  ELSE "reply_sending"

broadcast(u, args) ==
  Dispatch(u, [Idle EXCEPT !.cmd = "broadcast", !.args = args,
                           !.pc = broadcast_entry(u, args)])

\* the reply of about, or "Admin only.", completes or raises: the handler
\* returns, or the exception leaves it
ReplyOnlyDone(u, ok) ==
  /\ h[u].pc \in {"reply_about", "reply_admin_only"}
  /\ h' = [h EXCEPT ![u] = Done(h[u], IF ok THEN "returned" ELSE "raised")]
  /\ UNCHANGED <<now, ncmds, user_data, stats, calls, msg, task, concurrent_updates>>

\* the admin's statistics report (its lines are left out of the source file):
\* one reply that reads the stats record
StatsReportDone(u, ok) ==
  /\ h[u].pc = "reply_stats"
  /\ h' = [h EXCEPT ![u] = Done(h[u], IF ok THEN "returned" ELSE "raised")]
  /\ UNCHANGED <<now, ncmds, user_data, stats, calls, msg, task, concurrent_updates>>

\* next() of the iterator of `for uid in stats["users"]`: RuntimeError (which
\* leaves the handler, the for statement being outside the try) when the set
\* changed size since the iterator was made; else the final edit is issued when
\* every element was yielded; else some element not yet yielded is sent to
BcNext(u, hu) ==
  IF Cardinality(stats.users) # hu.si_used
  THEN h' = [h EXCEPT ![u] = Done(hu, "raised")]
  ELSE IF stats.users \ hu.visited = {}
  THEN h' = [h EXCEPT ![u] = [hu EXCEPT !.pc = "bc_edit_done"]]
  ELSE \E uid \in stats.users \ hu.visited :
         h' = [h EXCEPT ![u] = [hu EXCEPT !.pc = "bc_send", !.uid = uid,
                                          !.visited = hu.visited \cup {uid}]]

\* the "Sending..." reply completes: status is that message, the iterator is
\* made and asked for its first element; or it raises and leaves the handler
BcSendingDone(u, ok) ==
  /\ h[u].pc = "reply_sending"
  /\ IF ok
     THEN /\ msg' = [msg EXCEPT ![u] = [state |-> "live", text |-> Text("Sending", 0, 0)]]
          /\ BcNext(u, [h[u] EXCEPT !.sent = 0, !.failed = 0,
                                    !.si_used = Cardinality(stats.users)])
     ELSE /\ h' = [h EXCEPT ![u] = Done(h[u], "raised")]
          /\ UNCHANGED msg
  /\ UNCHANGED <<now, ncmds, user_data, stats, calls, task, concurrent_updates>>

\* the loop body with a failed send left uncounted
BcAfterSend_uncounted(hu, ok) ==
  IF ok THEN [hu EXCEPT !.sent = hu.sent + 1, !.delivered = hu.delivered \cup {hu.uid},
                        !.pc = "bc_sleep"]
  ELSE hu

\* try: send_message completed; sent += 1; sleep is awaited / except: failed += 1
BcAfterSend(hu, ok) ==
  IF ok THEN [hu EXCEPT !.sent = hu.sent + 1, !.delivered = hu.delivered \cup {hu.uid},
                        !.pc = "bc_sleep"]
  ELSE [hu EXCEPT !.failed = hu.failed + 1]

\* context.bot.send_message(uid, ...) completes or raises
BcSendDone(u, ok) ==
  /\ h[u].pc = "bc_send"
  /\ IF ok THEN h' = [h EXCEPT ![u] = BcAfterSend(h[u], TRUE)]
     ELSE BcNext(u, BcAfterSend(h[u], FALSE))
  /\ UNCHANGED <<now, ncmds, user_data, stats, calls, msg, task, concurrent_updates>>

\* asyncio.sleep(0.05) completes
BcSleepDone(u) ==
  /\ h[u].pc = "bc_sleep"
  /\ BcNext(u, h[u])
  /\ UNCHANGED <<now, ncmds, user_data, stats, calls, msg, task, concurrent_updates>>

\* status.edit_text("Done! Sent: ..., Failed: ...") completes and the handler
\* returns; or it raises and the exception leaves the handler
BcEditDoneDone(u, ok) ==
  /\ h[u].pc = "bc_edit_done"
  /\ ok => msg[u].state = "live"
  /\ msg' = IF ok THEN [msg EXCEPT ![u].text = Text("Done", h[u].sent, h[u].failed)]
            ELSE msg
  /\ h' = [h EXCEPT ![u] = Done(h[u], IF ok THEN "returned" ELSE "raised")]
  /\ UNCHANGED <<now, ncmds, user_data, stats, calls, task, concurrent_updates>>

(* ----------------------------- specification --------------------------- *)
Next ==
  \/ \E u \in Users, args \in BOOLEAN, d \in TimeSteps : handle_instagram(u, args, d)
  \/ \E u \in Users, args \in BOOLEAN, d \in TimeSteps : handle_tiktok(u, args, d)
  \/ \E u \in Users, ok \in BOOLEAN : ReplyEarlyDone(u, ok)
  \/ \E u \in Users, ok \in BOOLEAN : ReplyProcessingDone(u, ok)
  \/ \E u \in Users, resp \in InstaResponses : IgApiDone(u, resp)
  \/ \E u \in Users, ok \in BOOLEAN : IgEditProgressDone(u, ok)
  \/ \E u \in Users, res \in {0} \cup Sizes : RelayFetchDone(u, res)
  \/ \E u \in Users, ok \in BOOLEAN : RelaySendDone(u, ok)
  \/ \E u \in Users, ok \in BOOLEAN : IgDeleteDone(u, ok)
  \/ \E u \in Users, ok \in BOOLEAN : IgReplyFallbackDone(u, ok)
  \/ \E u \in Users, ok \in BOOLEAN : IgEditErrorDone(u, ok)
  \/ \E u \in Users, resp \in TiktokResponses : TtApiDone(u, resp)
  \/ \E u \in Users, ok \in BOOLEAN : TtThumbDone(u, ok)
  \/ \E u \in Users, ok \in BOOLEAN : TtDeleteDone(u, ok)
  \/ \E u \in Users, ok \in BOOLEAN : TtEditTooLargeDone(u, ok)
  \/ \E u \in Users, ok \in BOOLEAN : TtEditErrorDone(u, ok)
  \/ \E u \in Users, ok \in BOOLEAN : ExceptEditDone(u, ok)
  \/ \E u \in Users : about(u)
  \/ \E u \in Users : stats_command(u)
  \/ \E u \in Users, args \in BOOLEAN : broadcast(u, args)
  \/ \E u \in Users, ok \in BOOLEAN : ReplyOnlyDone(u, ok)
  \/ \E u \in Users, ok \in BOOLEAN : StatsReportDone(u, ok)
  \/ \E u \in Users, ok \in BOOLEAN : BcSendingDone(u, ok)
  \/ \E u \in Users, ok \in BOOLEAN : BcSendDone(u, ok)
  \/ \E u \in Users : BcSleepDone(u)
  \/ \E u \in Users, ok \in BOOLEAN : BcEditDoneDone(u, ok)
  \/ \E u \in Users : AnimEditIssue(u)
  \/ \E u \in Users, ok \in BOOLEAN : AnimEditDone(u, ok)
  \/ \E u \in Users, applied \in BOOLEAN : AnimCancelled(u, applied)

Spec == Init /\ [][Next]_vars

\* the event loop runs every task that is ready: a cancellation requested by
\* task.cancel() is delivered to the task
LiveSpec ==
  Spec /\ \A u \in Users : WF_vars(\E applied \in BOOLEAN : AnimCancelled(u, applied))

\* the same handlers in an Application built with concurrent_updates(True):
\* updates of different users are handled concurrently, their handlers
\* interleaving at their awaits
ConcInit ==
  /\ InitState
  /\ concurrent_updates = TRUE

\* what the extraction API and the fetch return in the concurrent runs: a
\* failure, or one photo / one video without thumbnail; a payload that fails
\* to arrive, that fits, that is too large
ConcInstaResponses ==
  {[success |-> FALSE, error |-> "upstream"], [success |-> TRUE, urls |-> <<UrlP>>]}
ConcTiktokResponses ==
  {[success |-> FALSE, error |-> "upstream"], [success |-> TRUE, data |-> <<VideoPlain>>]}
ConcSizes == {0, PHOTO_LIMIT, VIDEO_LIMIT + 1}

\* the steps of concurrently handled /instagram, /tiktok, /about and
\* /broadcast commands, each with its argument, issued one tick apart.  The
\* indicator task is created and cancelled; its spinner edits are left out:
\* they change nothing but the text of their own handler's status message,
\* which no step of any handler reads.
ConcNext ==
  \/ \E u \in Users : handle_instagram(u, TRUE, 1)
  \/ \E u \in Users : handle_tiktok(u, TRUE, 1)
  \/ \E u \in Users, ok \in BOOLEAN : ReplyEarlyDone(u, ok)
  \/ \E u \in Users, ok \in BOOLEAN : ReplyProcessingDone(u, ok)
  \/ \E u \in Users, resp \in ConcInstaResponses : IgApiDone(u, resp)
  \/ \E u \in Users, ok \in BOOLEAN : IgEditProgressDone(u, ok)
  \/ \E u \in Users, res \in ConcSizes : RelayFetchDone(u, res)
  \/ \E u \in Users, ok \in BOOLEAN : RelaySendDone(u, ok)
  \/ \E u \in Users, ok \in BOOLEAN : IgDeleteDone(u, ok)
  \/ \E u \in Users, ok \in BOOLEAN : IgReplyFallbackDone(u, ok)
  \/ \E u \in Users, ok \in BOOLEAN : IgEditErrorDone(u, ok)
  \/ \E u \in Users, resp \in ConcTiktokResponses : TtApiDone(u, resp)
  \/ \E u \in Users, ok \in BOOLEAN : TtDeleteDone(u, ok)
  \/ \E u \in Users, ok \in BOOLEAN : TtEditTooLargeDone(u, ok)
  \/ \E u \in Users, ok \in BOOLEAN : TtEditErrorDone(u, ok)
  \/ \E u \in Users, ok \in BOOLEAN : ExceptEditDone(u, ok)
  \/ \E u \in Users : about(u)
  \/ \E u \in Users : broadcast(u, TRUE)
  \/ \E u \in Users, ok \in BOOLEAN : ReplyOnlyDone(u, ok)
  \/ \E u \in Users, ok \in BOOLEAN : BcSendingDone(u, ok)
  \/ \E u \in Users, ok \in BOOLEAN : BcSendDone(u, ok)
  \/ \E u \in Users : BcSleepDone(u)
  \/ \E u \in Users, ok \in BOOLEAN : BcEditDoneDone(u, ok)
  \/ \E u \in Users, applied \in BOOLEAN : AnimCancelled(u, applied)

ConcSpec == ConcInit /\ [][ConcNext]_vars
\* quick retries: platform commands sent without a link, one to MaxRetryGap
\* ticks after the previous command; the cooldown gate is all that runs
\* before the reply
RetrySteps == 1..MaxRetryGap
RetryNext ==
  \/ \E u \in Users, d \in RetrySteps : handle_instagram(u, FALSE, d)
  \/ \E u \in Users, d \in RetrySteps : handle_tiktok(u, FALSE, d)
  \/ \E u \in Users, ok \in BOOLEAN : ReplyEarlyDone(u, ok)

RetrySpec == Init /\ [][RetryNext]_vars

(* ------------------------------ properties ----------------------------- *)
\* the handler of u starts in this step / leaves in this step
Begins(u) == h[u].pc \in {"idle", "done"} /\ h'[u].pc \notin {"idle", "done"}
Leaves(u) == h[u].pc \notin {"idle", "done"} /\ h'[u].pc = "done"

Abs(x) == IF x < 0 THEN -x ELSE x

\* the handler of u that starts in this step is that of a platform command
BeginsPlatform(u) == Begins(u) /\ h'[u].cmd \in {"instagram", "tiktok"}

\* C1: a platform command of a non-privileged user issued less than the
\* cooldown window after the user's recorded timestamp is rejected, and the
\* wait it reports is the tenth of a second nearest to window - elapsed
\* (in ticks: |wait/10 - remaining/TicksPerSec| <= 1/20).
C1_RejectedWithRemainingWait ==
  [][\A u \in Users :
       (/\ BeginsPlatform(u)
        /\ u \notin ADMIN_IDS
        /\ "last_cmd" \in DOMAIN user_data[u]
        /\ now' - user_data[u]["last_cmd"] < COMMAND_COOLDOWN * TicksPerSec)
       => LET remaining == COMMAND_COOLDOWN * TicksPerSec - (now' - user_data[u]["last_cmd"])
          IN /\ h'[u].pc = "reply_wait"
             /\ 2 * Abs(h'[u].wait * TicksPerSec - 10 * remaining) <= TicksPerSec]_vars

\* a rejected command whose remaining wait, 6.875 s, is reported as 6.9 s
C1_Witness ==
  \E u \in Users \ ADMIN_IDS :
    /\ h[u].pc = "reply_wait"
    /\ "last_cmd" \in DOMAIN user_data[u]
    /\ now - user_data[u]["last_cmd"] = 2
    /\ h[u].wait = (10 * COMMAND_COOLDOWN) - 1

\* C2: a rejected attempt leaves the user's timestamp as it was, and a
\* timestamp changes only in the step where the gate passes for a
\* non-privileged user.
C2_RejectionKeepsTimestamp ==
  [][\A u \in Users :
       /\ (Begins(u) /\ h'[u].on_cd) => user_data'[u] = user_data[u]
       /\ user_data'[u] # user_data[u]
            => (Begins(u) /\ ~h'[u].on_cd /\ u \notin ADMIN_IDS)]_vars

\* a rejected handler has returned and the user's timestamp is still that of
\* the earlier accepted command, not the time of the rejected attempt
C2_Witness ==
  \E u \in Users \ ADMIN_IDS :
    /\ h[u].pc = "done"
    /\ h[u].on_cd
    /\ "last_cmd" \in DOMAIN user_data[u]
    /\ user_data[u]["last_cmd"] < now

\* C3: a privileged user is never rate-limited, however soon after the
\* previous command, and the gate leaves every timestamp untouched.
C3_AdminNeverLimited ==
  [][\A u \in ADMIN_IDS :
       Begins(u) => (~h'[u].on_cd /\ h'[u].pc # "reply_wait" /\ user_data' = user_data)]_vars

\* the admin's third command in a row, no time having passed, is let through
C3_Witness ==
  \E u \in ADMIN_IDS :
    /\ ncmds = 3
    /\ now = StartTime
    /\ h[u].pc = "reply_processing"
    /\ user_data[u] = EmptyDict

\* C4: a platform command without its link argument reports the usage error
\* without updating the user's timestamp, recording statistics, creating the
\* status message or starting the progress indicator.
C4_UsageErrorTouchesNothing ==
  [][\A u \in Users :
       /\ (BeginsPlatform(u) /\ ~h'[u].args)
            => (h'[u].pc = "reply_usage" /\ user_data'[u] = user_data[u])
       /\ (h[u].pc = "reply_usage" /\ h[u].cmd \in {"instagram", "tiktok"} /\ Leaves(u))
            => (stats' = stats /\ msg'[u] = NoMsg /\ task'[u] = NoTask)]_vars

\* C5: a fetched video above 50 MiB or photo above 10 MiB is never sent
\* inline: no inline send is issued for it and the relay's outcome is the
\* size rejection, never delivered.
C5_OversizeNeverInline ==
  \A u \in Users :
    LET r == h[u].relay
    IN (\/ r.kind = "video" /\ r.size > 50 * 1024 * 1024
        \/ r.kind = "photo" /\ r.size > 10 * 1024 * 1024)
       => (~r.inline /\ r.result = "rejected")

\* a photo of 10 MiB + 1 byte was fetched and rejected
C5_Witness ==
  \E u \in Users :
    /\ h[u].relay.kind = "photo"
    /\ h[u].relay.size = 10 * 1024 * 1024 + 1
    /\ h[u].relay.result = "rejected"


\* the step records one outcome of command cmd of user u in the statistics
RecordsOne(u, cmd, success) ==
  /\ stats'.total_requests = stats.total_requests + 1
  /\ stats'.successful_requests = stats.successful_requests + (IF success THEN 1 ELSE 0)
  /\ stats'.failed_requests = stats.failed_requests + (IF success THEN 0 ELSE 1)
  /\ stats'.users = stats.users \cup {u}
  /\ cmd \in DOMAIN stats'.commands_used
  /\ stats'.commands_used[cmd] =
       (IF cmd \in DOMAIN stats.commands_used THEN stats.commands_used[cmd] ELSE 0) + 1

\* the extraction API returned success with a list of media URLs to /instagram
IgSuccess(u) ==
  /\ h[u].cmd = "instagram"
  /\ "urls" \in DOMAIN h[u].data
  /\ h[u].data["success"]

\* C6 as stated: when the extraction API returns success with N media URLs,
\* the handler leaves having invoked the relay exactly N times, once per URL
\* in input order, with delivered + deferred = N.
C6_RelayInvokedNTimes ==
  [][\A u \in Users :
       (Leaves(u) /\ IgSuccess(u))
       => /\ h[u].relayed = h[u].data["urls"]
          /\ h[u].uploaded + Len(h[u].fallback) = Len(h[u].data["urls"])]_vars

\* C6 as amended: the relay is invoked once per URL in input order, for a
\* prefix of the N URLs; the loop is abandoned before its end only when a
\* "Downloading i/N" status edit raises; and when the handler reaches its
\* final report the relay has been invoked exactly N times and
\* delivered + deferred = N.
C6_RelayInvokedInOrder ==
  /\ [](\A u \in Users :
          IgSuccess(u)
          => LET urls == h[u].data["urls"]
                 k == Len(h[u].relayed)
             IN /\ k <= Len(urls)
                /\ h[u].relayed = SubSeq(urls, 1, k)
                /\ h[u].uploaded + Len(h[u].fallback) <= k
                /\ h[u].pc \in {"delete", "reply_fallback"}
                     => (k = Len(urls) /\ h[u].uploaded + Len(h[u].fallback) = k))
  /\ [][\A u \in Users :
          (/\ IgSuccess(u)
           /\ h[u].pc \in {"edit_progress", "relay_fetch", "relay_send"}
           /\ h'[u].pc \notin {"edit_progress", "relay_fetch", "relay_send"})
          => \/ h'[u].pc = "delete" /\ h'[u].relayed = h[u].data["urls"]
             \/ h[u].pc = "edit_progress" /\ h'[u].pc = "edit_except"]_vars

\* two URLs were extracted, the relay was invoked for both in order, one was
\* delivered and one deferred, and the final report is being sent
C6_Witness ==
  \E u \in Users :
    /\ h[u].pc = "reply_fallback"
    /\ h[u].relayed = <<UrlP, UrlV>>
    /\ h[u].uploaded = 1
    /\ Len(h[u].fallback) = 1

\* C7: a platform handler that created a progress-indicator task has
\* requested its cancellation when it leaves, on return and on raise alike;
\* the cancelled task then ends without changing the handler's outcome or
\* showing anything but a spinner frame, and once the handler has left the
\* task eventually is over and edits the status message no more.
C7_IndicatorCancelled ==
  /\ [](\A u \in Users :
          (h[u].pc = "done" /\ h[u].has_task)
          => (task[u].cancel \/ task[u].pc = "finished"))
  /\ \A u \in Users :
       (h[u].pc = "done" /\ h[u].has_task) ~> (task[u].pc = "finished")
  /\ [][\A u \in Users :
          /\ (task[u].cancel /\ task[u].pc # "finished" /\ task'[u].pc = "finished")
               => /\ h' = h
                  /\ msg'[u].state = msg[u].state
                  /\ msg'[u].text.kind \in {msg[u].text.kind, "spin"}
          /\ (h[u].pc = "done" /\ task[u].pc = "finished" /\ msg'[u] # msg[u])
               => msg'[u] = NoMsg]_vars

\* an exception left the handler, and the indicator it had created was
\* cancelled and is over
C7_Witness ==
  \E u \in Users :
    /\ h[u].pc = "done"
    /\ h[u].exit = "raised"
    /\ h[u].has_task
    /\ task[u].cancel
    /\ task[u].pc = "finished"

\* /tiktok was answered with one video record with a single download link
\* and no thumbnail
TtOneVideo(u) ==
  /\ h[u].cmd = "tiktok"
  /\ h[u].data = [success |-> TRUE, data |-> <<[downloadLinks |-> <<[link |-> UrlV]>>]>>]

\* C8 as stated: in that scenario the indicator starts and the relay is
\* attempted exactly once; if it succeeds the handler leaves with the status
\* message deleted and one success recorded for "tiktok"; if it is rejected
\* by the size policy the handler leaves with the status message showing the
\* fallback link and one failure recorded.
C8_TiktokScenario ==
  [][\A u \in Users :
       (Leaves(u) /\ TtOneVideo(u))
       => /\ h[u].has_task
          /\ Len(h[u].relayed) = 1
          /\ h[u].relay.result = "ok"
               => (msg'[u].state = "deleted" /\ RecordsOne(u, "tiktok", TRUE))
          /\ h[u].relay.result = "rejected"
               => (msg'[u].text.kind = "TooLarge" /\ RecordsOne(u, "tiktok", FALSE))]_vars

\* C8 as amended: in that scenario the indicator starts and the relay is
\* attempted exactly once; if it succeeds msg.delete() is issued and, when it
\* completes, the message is deleted and one success is recorded; if it is
\* rejected by the size policy the fallback-link edit is issued and, when it
\* completes, the message shows the link and one failure is recorded; when
\* the delete or the edit raises, the except clause runs and nothing is
\* recorded.
C8_TiktokScenarioUnlessRaise ==
  [][\A u \in Users :
       TtOneVideo(u)
       => /\ Leaves(u) => (h[u].has_task /\ Len(h[u].relayed) = 1)
          /\ (h[u].relay.result = "none" /\ h'[u].relay.result = "ok")
               => h'[u].pc = "delete"
          /\ (h[u].relay.result = "none" /\ h'[u].relay.result = "rejected")
               => h'[u].pc = "edit_toolarge"
          /\ (h[u].pc = "delete" /\ Leaves(u))
               => (msg'[u].state = "deleted" /\ RecordsOne(u, "tiktok", TRUE))
          /\ (h[u].pc = "edit_toolarge" /\ Leaves(u))
               => (msg'[u].text.kind = "TooLarge" /\ RecordsOne(u, "tiktok", FALSE))
          /\ (h[u].pc \in {"delete", "edit_toolarge"} /\ ~Leaves(u) /\ h'[u] # h[u])
               => (h'[u].pc = "edit_except" /\ stats' = stats)
          /\ (h[u].pc = "edit_except" /\ Leaves(u)) => stats' = stats]_vars

\* the single video of the scenario was rejected by the size policy and the
\* fallback-link edit is awaited, the indicator having been started
C8_Witness ==
  \E u \in Users :
    /\ TtOneVideo(u)
    /\ h[u].pc = "edit_toolarge"
    /\ h[u].relay.result = "rejected"
    /\ h[u].relayed = <<UrlV>>
    /\ task[u].pc # "none"

\* C9: a platform command that passes the cooldown gate and the argument
\* check has recorded exactly one outcome when its handler leaves.
C9_OneOutcomePerCommand ==
  [][\A u \in Users :
       (Leaves(u) /\ h[u].cmd \in {"instagram", "tiktok"} /\ h[u].args /\ ~h[u].on_cd)
       => (RecordsOne(u, h[u].cmd, TRUE) \/ RecordsOne(u, h[u].cmd, FALSE))]_vars

\* C10: no exception leaves handle_instagram or handle_tiktok.
C10_NoExceptionEscapes ==
  \A u \in Users : h[u].cmd \in {"instagram", "tiktok"} => h[u].exit # "raised"

\* C11: at every moment total_requests = successful_requests +
\* failed_requests, and the success rate that about computes from the record
\* is successful_requests / total_requests * 100, the total taken as 1 when
\* no request was recorded; the reply shows that value to one decimal.
C11_TotalsAndSuccessRate ==
  /\ [](stats.total_requests = stats.successful_requests + stats.failed_requests)
  /\ [][\A u \in Users :
          (Begins(u) /\ h'[u].cmd = "about")
          => LET total == IF stats.total_requests = 0 THEN 1 ELSE stats.total_requests
                 r == h'[u].success_rate
             IN /\ r.den > 0
                /\ r.num * total = stats.successful_requests * 100 * r.den
                /\ 2 * Abs(h'[u].shown * r.den - 10 * r.num) <= r.den]_vars

\* one success and one failure were recorded and /about is showing 50.0 %
C11_Witness ==
  \E u \in Users :
    /\ h[u].cmd = "about"
    /\ h[u].pc = "reply_about"
    /\ stats.successful_requests = 1
    /\ stats.failed_requests = 1
    /\ stats.total_requests = 2
    /\ h[u].shown = 500

\* the broadcast of u has sent its "Sending..." status and is in or past its loop
Sending(u) == h[u].cmd = "broadcast" /\ h[u].pc \in {"bc_send", "bc_sleep", "bc_edit_done"}

\* C12: a broadcast attempts delivery to every known user, a failed send is
\* counted and the loop goes on, and when the final summary is issued Sent is
\* the number of sends that completed, Failed the number that raised and
\* Sent + Failed the number of known users; no step of a broadcast changes
\* the statistics record, the known-user set included.
C12_BroadcastCounts ==
  /\ [](\A u \in Users :
          Sending(u)
          => LET hu == h[u]
                 pending == IF hu.pc = "bc_send" THEN {hu.uid} ELSE {}
             IN /\ hu.visited \subseteq stats.users
                /\ hu.delivered \subseteq hu.visited \ pending
                /\ hu.sent = Cardinality(hu.delivered)
                /\ hu.failed = Cardinality((hu.visited \ pending) \ hu.delivered)
                /\ hu.pc = "bc_edit_done"
                     => /\ hu.visited = stats.users
                        /\ hu.sent + hu.failed = Cardinality(stats.users))
  /\ [][\A u \in Users :
          /\ ((h[u].cmd = "broadcast" \/ h'[u].cmd = "broadcast") /\ h'[u] # h[u])
               => stats' = stats
          /\ (h[u].pc = "bc_send" /\ h'[u] # h[u] /\ h'[u].pc # "bc_sleep")
               => /\ h'[u].pc \in {"bc_send", "bc_edit_done"}
                  /\ h'[u].failed = h[u].failed + 1
                  /\ h'[u].sent = h[u].sent
          /\ (Sending(u) /\ Leaves(u))
               => /\ h[u].pc = "bc_edit_done"
                  /\ msg'[u].text \in {msg[u].text, Text("Done", h[u].sent, h[u].failed)}
                  /\ h'[u].exit = "returned"
                       => msg'[u].text = Text("Done", h[u].sent, h[u].failed)]_vars

\* two users are known, one send completed and one raised, and the status
\* message shows "Done! Sent: 1, Failed: 1"
C12_Witness ==
  \E u \in Users :
    /\ h[u].cmd = "broadcast"
    /\ h[u].pc = "done"
    /\ Cardinality(stats.users) = 2
    /\ msg[u].text = Text("Done", 1, 1)

\* C13: with handlers of different users interleaving at their awaits, no
\* statistics update is lost: at every moment, so also once every handler
\* has finished, total_requests is the number of track_command calls made
\* and the counter of each command is the number of calls made for it.
C13_NoLostUpdate ==
  /\ stats.total_requests = Get(calls, "instagram", 0) + Get(calls, "tiktok", 0)
  /\ DOMAIN stats.commands_used = DOMAIN calls
  /\ \A cmd \in DOMAIN calls : stats.commands_used[cmd] = calls[cmd]

\* /tiktok of v was accepted first and is still suspended at an await; the
\* /instagram of u that began after it has run to its end inside that time
\* and recorded its outcome; the third handler is running as well
C13_Witness ==
  \E u, v, w \in Users :
    /\ u \notin ADMIN_IDS /\ v \notin ADMIN_IDS /\ w \in ADMIN_IDS
    /\ h[v].cmd = "tiktok" /\ h[v].pc = "relay_send"
    /\ h[u].cmd = "instagram" /\ h[u].pc = "done" /\ h[u].exit = "returned"
    /\ h[w].cmd = "tiktok" /\ h[w].pc = "delete"
    /\ user_data[v]["last_cmd"] < user_data[u]["last_cmd"]
    /\ calls = [c \in {"instagram"} |-> 1]
    /\ stats.total_requests = 1

\* C14: /stats and /broadcast of a non-admin check the privilege first: with
\* or without an argument the handler issues the "Admin only." reply and
\* nothing else, that reply completing (or raising) is its only step, and
\* neither step sends to another user or changes the statistics, a
\* timestamp, a status message or an indicator task.
C14_AdminOnlyShortCircuit ==
  [][\A u \in Users \ ADMIN_IDS :
       /\ (Begins(u) /\ h'[u].cmd \in {"stats", "broadcast"})
            => /\ h'[u].pc = "reply_admin_only"
               /\ stats' = stats /\ calls' = calls
               /\ user_data' = user_data /\ now' = now
               /\ msg'[u] = NoMsg /\ task'[u] = NoTask
       /\ (/\ h[u].cmd \in {"stats", "broadcast"}
           /\ h[u].pc \notin {"idle", "done"}
           /\ h'[u] # h[u])
            => /\ h[u].pc = "reply_admin_only"
               /\ Leaves(u)
               /\ h[u].visited = {} /\ h[u].delivered = {}
               /\ stats' = stats /\ calls' = calls
               /\ user_data' = user_data /\ now' = now
               /\ msg' = msg /\ task' = task]_vars

\* a non-admin sent /broadcast without a message while another user is
\* known, and is being answered "Admin only.", not with the usage line
C14_Witness ==
  \E u \in Users \ ADMIN_IDS :
    /\ h[u].cmd = "broadcast"
    /\ ~h[u].args
    /\ h[u].pc = "reply_admin_only"
    /\ stats.users \ {u} # {}

\* C15 as stated: when a non-privileged user who was just rejected retries
\* and is rejected again, the wait reported is strictly smaller than the
\* one reported to the previous attempt.
C15_WaitStrictlyDecreases ==
  [][\A u \in Users \ ADMIN_IDS :
       (BeginsPlatform(u) /\ h[u].pc = "done" /\ h[u].on_cd /\ h'[u].on_cd)
       => h'[u].wait < h[u].wait]_vars

\* C15 as amended: the wait reported to the retry is never larger than the
\* one reported to the previous attempt, and it is strictly smaller when more
\* than a tenth of a second lies between the two attempts.
C15_WaitNeverIncreases ==
  [][\A u \in Users \ ADMIN_IDS :
       (BeginsPlatform(u) /\ h[u].pc = "done" /\ h[u].on_cd /\ h'[u].on_cd)
       => /\ h'[u].wait <= h[u].wait
          /\ 10 * (now' - now) > TicksPerSec => h'[u].wait < h[u].wait]_vars

\* the third command of a user, 0.375 s after the accepted one and 0.1875 s
\* after the first rejected retry (told 6.8 s), is told to wait 6.6 s
C15_Witness ==
  \E u \in Users \ ADMIN_IDS :
    /\ ncmds = 3
    /\ h[u].pc = "reply_wait"
    /\ now - user_data[u]["last_cmd"] = 6
    /\ h[u].wait = 66

\* C16: in /instagram a URL is put on the fallback list only in the step in
\* which its relay attempt returns False (size rejection or failure), and
\* the delivered count grows only in the step in which a relay attempt
\* returns True after an inline send; each returning attempt adds one to
\* exactly one of the two, so no item is both delivered and deferred.
C16_DeferredNeverDelivered ==
  [][\A u \in Users :
       (/\ h[u].cmd = "instagram"
        /\ h[u].pc \notin {"idle", "done"}
        /\ h'[u].pc \notin {"idle", "done"})
       => /\ h'[u].fallback # h[u].fallback
               => /\ h'[u].fallback = Append(h[u].fallback, h[u].relay.url)
                  /\ h[u].relay.result = "none"
                  /\ h'[u].relay.result \in {"rejected", "failed"}
                  /\ h'[u].uploaded = h[u].uploaded
          /\ h'[u].uploaded # h[u].uploaded
               => /\ h'[u].uploaded = h[u].uploaded + 1
                  /\ h[u].relay.result = "none"
                  /\ h'[u].relay.result = "ok"
                  /\ h[u].relay.inline
                  /\ h'[u].fallback = h[u].fallback
          /\ (h[u].relay.result = "none" /\ h'[u].relay.result # "none")
               => h'[u].uploaded + Len(h'[u].fallback)
                    = h[u].uploaded + Len(h[u].fallback) + 1]_vars

\* the photo was delivered inline, the video after it was rejected for its
\* size: the fallback list holds the video's URL alone
C16_Witness ==
  \E u \in Users :
    /\ h[u].cmd = "instagram"
    /\ h[u].pc = "delete"
    /\ h[u].relayed = <<UrlP, UrlV>>
    /\ h[u].uploaded = 1
    /\ h[u].fallback = <<UrlV>>
    /\ h[u].relay.result = "rejected"

C18_FinalOutcomeStays ==
  [][\A u \in Users :
       msg[u].text.kind \in {"Error", "Unexpected", "TooLarge"}
       => msg'[u].text.kind # "spin"]_vars

\* C19: a platform command of a non-privileged user who has no recorded
\* timestamp passes the cooldown gate whatever the clock reads, and the
\* reading becomes the user's timestamp.
C19_FirstCommandAllowed ==
  [][\A u \in Users \ ADMIN_IDS :
       (BeginsPlatform(u) /\ "last_cmd" \notin DOMAIN user_data[u])
       => /\ ~h'[u].on_cd
          /\ h'[u].pc \in {"reply_usage", "reply_processing"}
          /\ user_data'[u] = [k \in {"last_cmd"} |-> now']]_vars

\* the first command of the run, read one tick after the earliest clock
\* value, was let through and its time recorded
C19_Witness ==
  \E u \in Users \ ADMIN_IDS :
    /\ ncmds = 1
    /\ h[u].pc = "reply_processing"
    /\ now = StartTime + 1
    /\ user_data[u] = [k \in {"last_cmd"} |-> now]

\* C20: the timestamp of a non-privileged user is the time of that user's
\* latest accepted platform command, and a command is accepted only when at
\* least the cooldown window has passed since it, so any two accepted
\* commands of one user are at least the window apart, whatever other users
\* send in between; the check made for one user is decided by that user's
\* timestamp alone and leaves every other user's timestamp as it is.
C20_AcceptedCommandsApart ==
  [][\A u \in Users :
       /\ (BeginsPlatform(u) /\ u \notin ADMIN_IDS /\ ~h'[u].on_cd)
            => /\ user_data'[u] = [k \in {"last_cmd"} |-> now']
               /\ "last_cmd" \in DOMAIN user_data[u]
                    => now' - user_data[u]["last_cmd"] >= COMMAND_COOLDOWN * TicksPerSec
       /\ user_data'[u] # user_data[u]
            => (BeginsPlatform(u) /\ u \notin ADMIN_IDS /\ ~h'[u].on_cd)
       /\ BeginsPlatform(u)
            => /\ \A v \in Users \ {u} : user_data'[v] = user_data[v]
               /\ u \notin ADMIN_IDS
                    => LET own == IF "last_cmd" \in DOMAIN user_data[u]
                                  THEN user_data[u]["last_cmd"] ELSE 0
                       IN h'[u].on_cd = (now' - own < COMMAND_COOLDOWN * TicksPerSec)]_vars

\* u was accepted, then another user v was accepted one tick before u's
\* window ended, then u was accepted again exactly one window after its
\* first command
C20_Witness ==
  \E u, v \in Users \ ADMIN_IDS :
    /\ u # v
    /\ ncmds = 3
    /\ h[u].pc = "reply_processing"
    /\ now = StartTime + 1 + COMMAND_COOLDOWN * TicksPerSec
    /\ user_data[u] = [k \in {"last_cmd"} |-> now]
    /\ user_data[v] = [k \in {"last_cmd"} |-> now - 1]

====
